---- MODULE Spec2Model ----
(***************************************************************************)
(* Model of FeedBack-Prize-3/feedback_custom_funtions.py: the dataset      *)
(* adapter, the loss functions, the optimizer/scheduler factory with its   *)
(* layerwise parameter grouping, and the evaluation metrics.                *)
(*                                                                         *)
(* The functions are called by an external training loop, one at a time.   *)
(* A Call action binds the arguments, drawn from small sets; the Run       *)
(* action of the function runs its whole body and records what it returned *)
(* or raised; ReturnToCaller hands control back to the training loop.      *)
(*                                                                         *)
(* Real numbers are exact rationals <<numerator, denominator>> in lowest   *)
(* terms.  Parameter names are sequences of tokens ("model", ".", ...), so *)
(* that Python's substring test `pat in name` is a contiguous-subsequence  *)
(* test.                                                                   *)
(***************************************************************************)
EXTENDS Integers, Sequences, FiniteSets, TLC

VARIABLES call, ret, dataset

vars == <<call, ret, dataset>>

NoCall == [fn |-> "none"]
None == [kind |-> "none"]
Pending == [kind |-> "pending"]
NoDataset == [constructed |-> FALSE]

\* A raised exception: its Python type and the layer whose code raises it
\* ("repo" would be a raise statement of this file; there is none).
Raise(type, raisedBy) == [kind |-> "raise", type |-> type, raisedBy |-> raisedBy]
Return(v) == [kind |-> "return", value |-> v]

\* Before the training loop has called anything.
Init ==
    /\ call = NoCall
    /\ ret = None
    /\ dataset = NoDataset

\* The call has returned or raised; control is back in the training loop.
ReturnToCaller ==
    /\ ret.kind \in {"return", "raise"}
    /\ call' = NoCall
    /\ ret' = None
    /\ UNCHANGED dataset

-----------------------------------------------------------------------------
(* Exact rationals *)

RECURSIVE GCD(_, _)
GCD(a, b) == IF b = 0 THEN a ELSE GCD(b, a % b)

Abs(x) == IF x < 0 THEN -x ELSE x

Rat(n, d) ==
    LET g == GCD(Abs(n), Abs(d))
    IN  IF n = 0 THEN <<0, 1>> ELSE <<n \div g, d \div g>>

Zero == Rat(0, 1)
RMul(a, b) == Rat(a[1] * b[1], a[2] * b[2])
RAdd(a, b) == Rat(a[1] * b[2] + b[1] * a[2], a[2] * b[2])
RLe(a, b) == a[1] * b[2] <= b[1] * a[2]
RLt(a, b) == a[1] * b[2] < b[1] * a[2]

-----------------------------------------------------------------------------
(* Parameter names and the model collaborator *)

\* Python `pat in n` for strings, on token sequences.
IsIn(pat, n) ==
    \E i \in 1..(Len(n) - Len(pat) + 1) : SubSeq(n, i, i + Len(pat) - 1) = pat

StartsWith(n, prefix) ==
    Len(n) >= Len(prefix) /\ SubSeq(n, 1, Len(prefix)) = prefix

\* The attribute paths the code reaches into: model.model.embeddings and
\* model.model.encoder.layer[i].
EmbeddingsPath == <<"model", ".", "embeddings">>
EncoderLayerPath(i) == <<"model", ".", "encoder", ".", "layer", ".", ToString(i)>>

\* Parameters (names relative to their block) of the embedding block, of one
\* encoder layer and of the task head.
EmbeddingsParams ==
    { <<"word_embeddings", ".", "weight">>,
      <<"LayerNorm", ".", "weight">>,
      <<"LayerNorm", ".", "bias">> }

EncoderLayerParams ==
    { <<"dense", ".", "weight">>,
      <<"dense", ".", "bias">>,
      <<"LayerNorm", ".", "weight">>,
      <<"LayerNorm", ".", "bias">> }

HeadParams ==
    { <<"fc", ".", "weight">>, <<"fc", ".", "bias">> }

\* Backbone parameters outside the embedding block and the encoder layers,
\* per backbone architecture (the attribute layout of the pretrained-model
\* library): BERT has a pooler, DeBERTa has encoder-level relative
\* embeddings and LayerNorm, ELECTRA projects its embeddings to the hidden
\* size with model.embeddings_project.
Architectures == {"bert", "deberta", "electra"}

MiscParams(arch) ==
    CASE arch = "bert" ->
            { <<"model", ".", "pooler", ".", "dense", ".", "weight">>,
              <<"model", ".", "pooler", ".", "dense", ".", "bias">> }
      [] arch = "deberta" ->
            { <<"model", ".", "encoder", ".", "rel_", "embeddings", ".", "weight">>,
              <<"model", ".", "encoder", ".", "LayerNorm", ".", "weight">>,
              <<"model", ".", "encoder", ".", "LayerNorm", ".", "bias">> }
      [] arch = "electra" ->
            { <<"model", ".", "embeddings", "_project", ".", "weight">>,
              <<"model", ".", "embeddings", "_project", ".", "bias">> }

\* A model: a task head plus a backbone registered as attribute `model`,
\* with nLayers encoder layers.  A parameter is identified by its full name.
Model(arch, nLayers) ==
    [ arch |-> arch,
      nLayers |-> nLayers,
      params |->
          HeadParams
          \cup { EmbeddingsPath \o <<".">> \o r : r \in EmbeddingsParams }
          \cup { EncoderLayerPath(i) \o <<".">> \o r :
                     i \in 0..(nLayers - 1), r \in EncoderLayerParams }
          \cup MiscParams(arch) ]

\* module.named_parameters(): pairs (name relative to the module, parameter).
NamedParameters(model) == { [n |-> f, p |-> f] : f \in model.params }

NamedParametersOf(model, path) ==
    { [n |-> SubSeq(f, Len(path) + 2, Len(f)), p |-> f] :
          f \in { g \in model.params : StartsWith(g, path \o <<".">>) } }

-----------------------------------------------------------------------------
(* get_optimizer_grouped_parameters *)

no_decay == { <<"bias">>, <<"LayerNorm", ".", "weight">> }

\* any(nd in n for nd in no_decay)
AnyNoDecay(n) == \E nd \in no_decay : IsIn(nd, n)

\* [p for n, p in named if not any(...)] and [p for n, p in named if any(...)]
DecayParams(named) == { x.p : x \in { y \in named : ~AnyNoDecay(y.n) } }
NoDecayParams(named) == { x.p : x \in { y \in named : AnyNoDecay(y.n) } }

\* "model" not in n
IsHeadName(n) == ~IsIn(<<"model">>, n)

\* "model" in n and "model.embeddings" not in n and "model.encoder.layer" not in n
IsExtraName(n) ==
    /\ IsIn(<<"model">>, n)
    /\ ~IsIn(<<"model", ".", "embeddings">>, n)
    /\ ~IsIn(<<"model", ".", "encoder", ".", "layer">>, n)

Reverse(s) == [i \in 1..Len(s) |-> s[Len(s) + 1 - i]]

\* layers = [model.model.embeddings] + list(model.model.encoder.layer); layers.reverse()
Layers(model) ==
    Reverse(<<EmbeddingsPath>> \o [i \in 1..model.nLayers |-> EncoderLayerPath(i - 1)])

\* Mutant of NextLr: the rate is never decayed.
NextLrKept(lr, layerwise_lr_decay) == lr

\* lr *= layerwise_lr_decay
NextLr(lr, layerwise_lr_decay) == RMul(lr, layerwise_lr_decay)

\* The two groups the loop body appends for one layer.
LayerGroups(model, layer, layerwise_weight_decay, lr) ==
    << [ params |-> DecayParams(NamedParametersOf(model, layer)),
         weight_decay |-> layerwise_weight_decay,
         lr |-> lr ],
       [ params |-> NoDecayParams(NamedParametersOf(model, layer)),
         weight_decay |-> Zero,
         lr |-> lr ] >>

\* for layer in layers: ...
RECURSIVE LayerLoop(_, _, _, _, _)
LayerLoop(model, layers, layerwise_weight_decay, layerwise_lr_decay, lr) ==
    IF layers = <<>>
    THEN <<>>
    ELSE LayerGroups(model, Head(layers), layerwise_weight_decay, lr)
         \o LayerLoop(model, Tail(layers), layerwise_weight_decay,
                      layerwise_lr_decay, NextLr(lr, layerwise_lr_decay))

\* The task-specific group.
HeadGroup(model, decoder_lr) ==
    [ params |-> { x.p : x \in { y \in NamedParameters(model) : IsHeadName(y.n) } },
      weight_decay |-> Zero,
      lr |-> decoder_lr ]

\* extra_params and its two groups.
ExtraParams(model) == { y \in NamedParameters(model) : IsExtraName(y.n) }

ExtraGroups(model, layerwise_lr, layerwise_weight_decay) ==
    << [ params |-> DecayParams(ExtraParams(model)),
         weight_decay |-> layerwise_weight_decay,
         lr |-> layerwise_lr ],
       [ params |-> NoDecayParams(ExtraParams(model)),
         weight_decay |-> Zero,
         lr |-> layerwise_lr ] >>

get_optimizer_grouped_parameters(model, layerwise_lr, decoder_lr, layerwise_weight_decay, layerwise_lr_decay) ==
    <<HeadGroup(model, decoder_lr)>>
    \o ExtraGroups(model, layerwise_lr, layerwise_weight_decay)
    \o LayerLoop(model, Layers(model), layerwise_weight_decay,
                 layerwise_lr_decay, layerwise_lr)

\* The default of the layerwise_lr_decay parameter, 0.9.
DefaultLrDecay == Rat(9, 10)

-----------------------------------------------------------------------------
(* Inputs of the grouping calls *)

MaxLayers == 2

\* Learning rates in units of 1e-5, weight decays, decay factors.
LearningRates == { Rat(0, 1), Rat(2, 1), Rat(5, 1) }
DecoderLrs == { Rat(100, 1), Rat(2, 1) }
WeightDecays == { Rat(0, 1), Rat(1, 100) }
LrDecays == { Rat(1, 2), DefaultLrDecay, Rat(1, 1), Rat(3, 2) }

Models == { Model(a, l) : a \in Architectures, l \in 1..MaxLayers }

\* The training loop calls the function: the arguments are bound.
CallGetOptimizerGroupedParameters ==
    /\ call = NoCall
    /\ \E model \in Models, layerwise_lr \in LearningRates, decoder_lr \in DecoderLrs,
          layerwise_weight_decay \in WeightDecays, layerwise_lr_decay \in LrDecays :
           call' = [ fn |-> "get_optimizer_grouped_parameters",
                     model |-> model,
                     layerwise_lr |-> layerwise_lr,
                     decoder_lr |-> decoder_lr,
                     layerwise_weight_decay |-> layerwise_weight_decay,
                     layerwise_lr_decay |-> layerwise_lr_decay ]
    /\ ret' = Pending
    /\ UNCHANGED dataset

\* The body of get_optimizer_grouped_parameters, to its return.
RunGetOptimizerGroupedParameters ==
    /\ ret = Pending
    /\ call.fn = "get_optimizer_grouped_parameters"
    /\ ret' = Return(get_optimizer_grouped_parameters(
                  call.model, call.layerwise_lr, call.decoder_lr,
                  call.layerwise_weight_decay, call.layerwise_lr_decay))
    /\ UNCHANGED <<call, dataset>>

NextGrouping ==
    \/ CallGetOptimizerGroupedParameters
    \/ RunGetOptimizerGroupedParameters
    \/ ReturnToCaller

SpecGrouping == Init /\ [][NextGrouping]_vars

-----------------------------------------------------------------------------
(* optimizer_setup *)

\* Mutant of PlainGroups: only biases are kept from weight decay.
PlainGroupsBiasOnly(model, config) ==
    << [ params |-> { x.p : x \in { y \in NamedParameters(model) : ~IsIn(<<"bias">>, y.n) } },
         weight_decay |-> config.weight_decay ],
       [ params |-> { x.p : x \in { y \in NamedParameters(model) : IsIn(<<"bias">>, y.n) } },
         weight_decay |-> Zero ] >>

\* The two groups of the branch without layerwise rates; they carry no "lr".
PlainGroups(model, config) ==
    << [ params |-> DecayParams(NamedParameters(model)),
         weight_decay |-> config.weight_decay ],
       [ params |-> NoDecayParams(NamedParameters(model)),
         weight_decay |-> Zero ] >>

OptimizerParameters(model, config, layerwise) ==
    IF layerwise
    THEN get_optimizer_grouped_parameters(
             model, config.learning_rate, config.decoder_lr,
             config.weight_decay, DefaultLrDecay)
    ELSE PlainGroups(model, config)

\* AdamW(optimizer_parameters, lr=..., correct_bias=True): the optimizer
\* keeps the groups and fills a group's missing "lr" with the default.
AdamW(optimizer_parameters, lr) ==
    [ param_groups |->
          [ g \in DOMAIN optimizer_parameters |->
                IF "lr" \in DOMAIN optimizer_parameters[g]
                THEN optimizer_parameters[g]
                ELSE optimizer_parameters[g] @@ [lr |-> lr] ],
      correct_bias |-> TRUE ]

\* Mutant of NumTrainingSteps: gradient accumulation is left out.
NumTrainingStepsPerBatch(train_dataset_size, config) ==
    (train_dataset_size * config.epochs) \div config.train_batch_size

\* (train_dataset_size * config['epochs']) // (config['train_batch_size'] * config['n_accumulate'])
NumTrainingSteps(train_dataset_size, config) ==
    (train_dataset_size * config.epochs)
        \div (config.train_batch_size * config.n_accumulate)

\* 0.1 * num_training_steps
NumWarmupSteps(num_training_steps) == Rat(num_training_steps, 10)

\* get_linear_schedule_with_warmup(optimizer, num_warmup_steps=..., num_training_steps=...)
get_linear_schedule_with_warmup(optimizer, num_warmup_steps, num_training_steps) ==
    [ num_warmup_steps |-> num_warmup_steps,
      num_training_steps |-> num_training_steps ]

optimizer_setup(model, config, train_dataset_size, layerwise) ==
    LET optimizer ==
            AdamW(OptimizerParameters(model, config, layerwise), config.learning_rate)
        num_training_steps == NumTrainingSteps(train_dataset_size, config)
    IN  [ optimizer |-> optimizer,
          scheduler |-> get_linear_schedule_with_warmup(
                            optimizer,
                            NumWarmupSteps(num_training_steps),
                            num_training_steps) ]

\* Configurations: learning rates in units of 1e-5; sizes are counts.
Epochs == {1, 3}
TrainBatchSizes == {8, 10}
Accumulates == {1, 2}
DatasetSizes == {0, 7, 1000}

Configs ==
    [ learning_rate : LearningRates \ {Zero},
      decoder_lr : DecoderLrs,
      weight_decay : WeightDecays,
      epochs : Epochs,
      train_batch_size : TrainBatchSizes,
      n_accumulate : Accumulates ]

CallOptimizerSetup ==
    /\ call = NoCall
    /\ \E model \in Models, config \in Configs,
          train_dataset_size \in DatasetSizes, layerwise \in BOOLEAN :
           call' = [ fn |-> "optimizer_setup",
                     model |-> model,
                     config |-> config,
                     train_dataset_size |-> train_dataset_size,
                     layerwise |-> layerwise ]
    /\ ret' = Pending
    /\ UNCHANGED dataset

RunOptimizerSetup ==
    /\ ret = Pending
    /\ call.fn = "optimizer_setup"
    /\ ret' = Return(optimizer_setup(call.model, call.config,
                                      call.train_dataset_size, call.layerwise))
    /\ UNCHANGED <<call, dataset>>

NextOptimizer ==
    \/ CallOptimizerSetup
    \/ RunOptimizerSetup
    \/ ReturnToCaller

SpecOptimizer == Init /\ [][NextOptimizer]_vars

-----------------------------------------------------------------------------
(* FeedBackDataset *)

TargetColumns ==
    <<"cohesion", "syntax", "vocabulary", "phraseology", "grammar", "conventions">>

\* Rows of the input table: the text (its tokens) and the six scores, in
\* half points.
SampleRows ==
    { [ full_text |-> <<101, 102, 103>>,
        cohesion |-> 6, syntax |-> 7, vocabulary |-> 8,
        phraseology |-> 5, grammar |-> 4, conventions |-> 9 ],
      [ full_text |-> <<201, 202, 203, 204, 205, 206, 207>>,
        cohesion |-> 2, syntax |-> 3, vocabulary |-> 10,
        phraseology |-> 6, grammar |-> 8, conventions |-> 5 ],
      [ full_text |-> <<>>,
        cohesion |-> 4, syntax |-> 4, vocabulary |-> 4,
        phraseology |-> 4, grammar |-> 4, conventions |-> 4 ] }

MaxRows == 2

RECURSIVE SeqsUpTo(_, _)
SeqsUpTo(S, n) ==
    IF n = 0 THEN {<<>>}
    ELSE SeqsUpTo(S, n - 1)
         \cup { Append(q, x) : q \in { r \in SeqsUpTo(S, n - 1) : Len(r) = n - 1 }, x \in S }

DataFrames == SeqsUpTo(SampleRows, MaxRows)

\* target_label: None (the default) or a list of columns.
NoTargetLabel == <<"None">>
TargetLabels ==
    { NoTargetLabel, TargetColumns, <<"grammar", "cohesion">> }

MaxLengths == {4, 8}

Min(a, b) == IF a < b THEN a ELSE b

\* tokenizer.encode_plus(text, truncation=True, add_special_tokens=True,
\* max_length=...): the tokens between the two boundary tokens, cut so
\* that the whole fits max_length; the mask marks every token.
CLS == 1
SEP == 2
EncodePlus(text, max_length) ==
    LET ids == <<CLS>> \o SubSeq(text, 1, Min(Len(text), max_length - 2)) \o <<SEP>>
    IN  [ input_ids |-> ids,
          attention_mask |-> [i \in 1..Len(ids) |-> 1] ]

\* Mutant of ColumnsOf: the six target columns, whatever the list says.
AllTargetColumnsOf(df, target_label) ==
    [ i \in 1..Len(df) |-> [ j \in 1..Len(TargetColumns) |-> df[i][TargetColumns[j]] ] ]

\* df[target_label].values: a row per example, a value per listed column.
\* With target_label None pandas raises KeyError.
ColumnsOf(df, target_label) ==
    [ i \in 1..Len(df) |-> [ j \in 1..Len(target_label) |-> df[i][target_label[j]] ] ]

\* FeedBackDataset.__init__: the object, or the exception that leaves no object.
\* target_label is kept only for the properties below; the code does not
\* store it.
DatasetInit(df, max_length, target_label, train_mode) ==
    IF train_mode /\ target_label = NoTargetLabel
    THEN Raise("KeyError", "pandas")
    ELSE Return(
             [ constructed |-> TRUE,
               df |-> df,
               max_len |-> max_length,
               texts |-> [i \in 1..Len(df) |-> df[i].full_text],
               train_mode |-> train_mode,
               target_label |-> target_label ]
             @@ ( IF train_mode
                  THEN [targets |-> ColumnsOf(df, target_label)]
                  ELSE <<>> ))

\* FeedBackDataset.__len__
DatasetLen(self) == Return(Len(self.df))

\* FeedBackDataset.__getitem__; indices count from 0.
DatasetGetItem(self, index) ==
    IF index >= Len(self.texts)
    THEN Raise("IndexError", "numpy")
    ELSE LET inputs == EncodePlus(self.texts[index + 1], self.max_len)
         IN  IF self.train_mode
             THEN Return([ input_ids |-> inputs.input_ids,
                           attention_mask |-> inputs.attention_mask,
                           target |-> self.targets[index + 1] ])
             ELSE Return([ input_ids |-> inputs.input_ids,
                           attention_mask |-> inputs.attention_mask ])

CallDatasetInit ==
    /\ call = NoCall
    /\ dataset = NoDataset
    /\ \E df \in DataFrames, max_length \in MaxLengths,
          target_label \in TargetLabels, train_mode \in BOOLEAN :
           call' = [ fn |-> "__init__", df |-> df, max_length |-> max_length,
                     target_label |-> target_label, train_mode |-> train_mode ]
    /\ ret' = Pending
    /\ UNCHANGED dataset

RunDatasetInit ==
    /\ ret = Pending
    /\ call.fn = "__init__"
    /\ LET r == DatasetInit(call.df, call.max_length, call.target_label, call.train_mode)
       IN  IF r.kind = "return"
           THEN dataset' = r.value /\ ret' = Return("self")
           ELSE dataset' = dataset /\ ret' = r
    /\ UNCHANGED call

CallDatasetLen ==
    /\ call = NoCall
    /\ dataset.constructed
    /\ call' = [fn |-> "__len__"]
    /\ ret' = Pending
    /\ UNCHANGED dataset

RunDatasetLen ==
    /\ ret = Pending
    /\ call.fn = "__len__"
    /\ ret' = DatasetLen(dataset)
    /\ UNCHANGED <<call, dataset>>

\* The data loader asks for the rows 0..N-1; index N is one past the end.
CallDatasetGetItem ==
    /\ call = NoCall
    /\ dataset.constructed
    /\ \E index \in 0..Len(dataset.df) :
           call' = [fn |-> "__getitem__", index |-> index]
    /\ ret' = Pending
    /\ UNCHANGED dataset

RunDatasetGetItem ==
    /\ ret = Pending
    /\ call.fn = "__getitem__"
    /\ ret' = DatasetGetItem(dataset, call.index)
    /\ UNCHANGED <<call, dataset>>

NextDataset ==
    \/ CallDatasetInit
    \/ RunDatasetInit
    \/ CallDatasetLen
    \/ RunDatasetLen
    \/ CallDatasetGetItem
    \/ RunDatasetGetItem
    \/ ReturnToCaller

SpecDataset == Init /\ [][NextDataset]_vars

-----------------------------------------------------------------------------
(* Loss functions *)

(* Tensor elements and losses are fixed-point numbers in units of 1e-6;     *)
(* squared quantities are in units of 1e-12, where eps = 1e-9 is 1000.      *)
(* A scalar result is an exact rational of those units.                     *)

RECURSIVE SumSeq(_)
SumSeq(s) == IF s = <<>> THEN 0 ELSE Head(s) + SumSeq(Tail(s))

\* The integer square root, rounded down, by bisection: lo^2 <= x < hi^2.
RECURSIVE SqrtBetween(_, _, _)
SqrtBetween(x, lo, hi) ==
    IF hi - lo <= 1
    THEN lo
    ELSE LET mid == (lo + hi) \div 2
         IN  IF mid * mid <= x
             THEN SqrtBetween(x, mid, hi)
             ELSE SqrtBetween(x, lo, mid)

\* torch.sqrt / np.sqrt on the fixed-point grid.
Sqrt(x) == SqrtBetween(x, 0, 46341)

\* eps=1e-9
Eps == 1000

Scalar(q) == [scalar |-> TRUE, data |-> q]
Tensor(d) == [scalar |-> FALSE, data |-> d]

\* x.float(): the same values as a float32 tensor.
Float(x) == [dtype |-> "float32", data |-> x.data]

\* nn.MSELoss(reduction)(x, y)
MSELoss(reduction, x, y) ==
    LET sq == [i \in 1..Len(x.data) |-> (x.data[i] - y.data[i]) * (x.data[i] - y.data[i])]
    IN  IF reduction = "none"
        THEN Tensor(sq)
        ELSE Scalar(Rat(SumSeq(sq), Len(sq)))

\* nn.SmoothL1Loss()(x, y), beta = 1.0: 0.5 d^2 / beta below beta,
\* |d| - 0.5 beta from there on; the mean.
SmoothL1Loss(x, y) ==
    LET num == [i \in 1..Len(x.data) |->
                  LET d == Abs(x.data[i] - y.data[i])
                  IN  IF d < 1000000 THEN d * d ELSE 2000000 * d - 1000000 * 1000000]
    IN  Scalar(Rat(SumSeq(num), 2000000 * Len(num)))

\* RMSELoss.__init__(reduction='mean', eps=1e-9)
RMSELoss(reduction, eps) == [reduction |-> reduction, eps |-> eps]

\* Mutant of RmseElementwise: eps is left out.
RmseElementwiseNoEps(self, predictions, targets) ==
    LET mse == MSELoss("none", predictions, targets).data
    IN  [i \in 1..Len(mse) |-> Sqrt(mse[i])]

\* torch.sqrt(self.mse(predictions, targets) + self.eps)
RmseElementwise(self, predictions, targets) ==
    LET mse == MSELoss("none", predictions, targets).data
    IN  [i \in 1..Len(mse) |-> Sqrt(mse[i] + self.eps)]

\* RMSELoss.forward
RMSELossForward(self, predictions, targets) ==
    LET loss == RmseElementwise(self, predictions, targets)
    IN  CASE self.reduction = "none" -> Tensor(loss)
          [] self.reduction = "sum" -> Scalar(Rat(SumSeq(loss), 1))
          [] self.reduction = "mean" -> Scalar(Rat(SumSeq(loss), Len(loss)))
          [] OTHER -> Tensor(loss)

\* loss_fn: with a loss_type that no branch names, loss_func is unbound when
\* the return statement reads it.
loss_fn(outputs, labels, loss_type) ==
    CASE loss_type = "mse" ->
            Return(MSELoss("mean", Float(outputs), Float(labels)))
      [] loss_type = "rmse" ->
            Return(RMSELossForward(RMSELoss("mean", Eps), Float(outputs), Float(labels)))
      [] loss_type = "smooth_l1" ->
            Return(SmoothL1Loss(Float(outputs), Float(labels)))
      [] OTHER -> Raise("UnboundLocalError", "python")

MaxElems == 2

\* Element values: 0, 0.0001 and 0.02.
ElementValues == {0, 100, 20000}

Vectors == SeqsUpTo(ElementValues, MaxElems) \ {<<>>}

Reductions == {"none", "sum", "mean", "batchmean"}
LossTypes == {"mse", "rmse", "smooth_l1", "mae"}
Dtypes == {"float32", "float64"}

CallRMSELossForward ==
    /\ call = NoCall
    /\ \E reduction \in Reductions, p \in Vectors, t \in Vectors :
           /\ Len(p) = Len(t)
           /\ call' = [ fn |-> "RMSELoss.forward",
                        self |-> RMSELoss(reduction, Eps),
                        predictions |-> [dtype |-> "float32", data |-> p],
                        targets |-> [dtype |-> "float32", data |-> t] ]
    /\ ret' = Pending
    /\ UNCHANGED dataset

RunRMSELossForward ==
    /\ ret = Pending
    /\ call.fn = "RMSELoss.forward"
    /\ ret' = Return(RMSELossForward(call.self, call.predictions, call.targets))
    /\ UNCHANGED <<call, dataset>>

CallLossFn ==
    /\ call = NoCall
    /\ \E loss_type \in LossTypes, dtype \in Dtypes, p \in Vectors, t \in Vectors :
           /\ Len(p) = Len(t)
           /\ call' = [ fn |-> "loss_fn",
                        outputs |-> [dtype |-> "float32", data |-> p],
                        labels |-> [dtype |-> dtype, data |-> t],
                        loss_type |-> loss_type ]
    /\ ret' = Pending
    /\ UNCHANGED dataset

RunLossFn ==
    /\ ret = Pending
    /\ call.fn = "loss_fn"
    /\ ret' = loss_fn(call.outputs, call.labels, call.loss_type)
    /\ UNCHANGED <<call, dataset>>

NextLoss ==
    \/ CallRMSELossForward
    \/ RunRMSELossForward
    \/ CallLossFn
    \/ RunLossFn
    \/ ReturnToCaller

SpecLoss == Init /\ [][NextLoss]_vars

-----------------------------------------------------------------------------
(* compute_metrics *)

(* Predictions and labels are integer matrices (scores in half points), a   *)
(* sequence of rows.  A column RMSE is an exact rational, the square root   *)
(* taken on a grid of 1/Precision.                                          *)

Precision == 1000

RECURSIVE SumRat(_)
SumRat(s) == IF s = <<>> THEN Zero ELSE RAdd(Head(s), SumRat(Tail(s)))

NumColumns(a) == Len(a[1])

\* (labels - predictions) ** 2, summed over the rows of column j
SquaredErrorSum(labels, predictions, j) ==
    SumSeq([i \in 1..Len(labels) |->
               (labels[i][j] - predictions[i][j]) * (labels[i][j] - predictions[i][j])])

\* Mutant of ColwiseRmse: the squared errors are summed, not averaged.
ColwiseRootSum(labels, predictions) ==
    [ j \in 1..NumColumns(labels) |->
          Rat(Sqrt(SquaredErrorSum(labels, predictions, j) * Precision * Precision),
              Precision) ]

\* np.sqrt(np.mean((labels - predictions) ** 2, axis=0))
ColwiseRmse(labels, predictions) ==
    [ j \in 1..NumColumns(labels) |->
          Rat(Sqrt((SquaredErrorSum(labels, predictions, j) * Precision * Precision)
                       \div Len(labels)),
              Precision) ]

\* np.mean(colwise_rmse)
MeanRmse(colwise_rmse) == RMul(SumRat(colwise_rmse), Rat(1, Len(colwise_rmse)))

\* Mutant of MetricsMapping: syntax and vocabulary read each other's column.
MetricsMappingSwapped(colwise_rmse, mean_rmse) ==
    IF Len(colwise_rmse) < 6
    THEN Raise("IndexError", "numpy")
    ELSE Return([ mcrmse |-> mean_rmse,
                  cohesion_rmse |-> colwise_rmse[1],
                  syntax_rmse |-> colwise_rmse[3],
                  vocabulary_rmse |-> colwise_rmse[2],
                  phraseology_rmse |-> colwise_rmse[4],
                  grammar_rmse |-> colwise_rmse[5],
                  conventions_rmse |-> colwise_rmse[6] ])

\* The returned dict; colwise_rmse[k] with k past the last column raises.
MetricsMapping(colwise_rmse, mean_rmse) ==
    IF Len(colwise_rmse) < 6
    THEN Raise("IndexError", "numpy")
    ELSE Return([ mcrmse |-> mean_rmse,
                  cohesion_rmse |-> colwise_rmse[1],
                  syntax_rmse |-> colwise_rmse[2],
                  vocabulary_rmse |-> colwise_rmse[3],
                  phraseology_rmse |-> colwise_rmse[4],
                  grammar_rmse |-> colwise_rmse[5],
                  conventions_rmse |-> colwise_rmse[6] ])

compute_metrics(p) ==
    LET colwise_rmse == ColwiseRmse(p.label_ids, p.predictions)
    IN  MetricsMapping(colwise_rmse, MeanRmse(colwise_rmse))

MaxBatch == 2

ColumnCounts == {5, 6, 7}

LabelRows(nc) ==
    { [j \in 1..nc |-> 6], [j \in 1..nc |-> 2 + (j % 4)] }

PredictionRows(nc) ==
    { [j \in 1..nc |-> 5], [j \in 1..nc |-> 1 + ((j * j) % 5)] }

\* Per-column constants c_j.
Offsets(nc) ==
    { [j \in 1..nc |-> 0], [j \in 1..nc |-> j - 3], [j \in 1..nc |-> -1] }

Shifted(labels, c) ==
    [i \in 1..Len(labels) |-> [j \in 1..Len(c) |-> labels[i][j] + c[j]]]

CallComputeMetrics ==
    /\ call = NoCall
    /\ \E nc \in ColumnCounts :
         \E labels \in SeqsUpTo(LabelRows(nc), MaxBatch) \ {<<>>} :
           \E predictions \in
                 { Shifted(labels, c) : c \in Offsets(nc) }
                 \cup { q \in SeqsUpTo(PredictionRows(nc), MaxBatch) : Len(q) = Len(labels) } :
              call' = [ fn |-> "compute_metrics",
                        p |-> [predictions |-> predictions, label_ids |-> labels] ]
    /\ ret' = Pending
    /\ UNCHANGED dataset

RunComputeMetrics ==
    /\ ret = Pending
    /\ call.fn = "compute_metrics"
    /\ ret' = compute_metrics(call.p)
    /\ UNCHANGED <<call, dataset>>

NextMetrics ==
    \/ CallComputeMetrics
    \/ RunComputeMetrics
    \/ ReturnToCaller

SpecMetrics == Init /\ [][NextMetrics]_vars

-----------------------------------------------------------------------------
(* Claims about get_optimizer_grouped_parameters *)

GroupingReturned ==
    call.fn = "get_optimizer_grouped_parameters" /\ ret.kind = "return"

\* The structure of the model, independent of the name tests of the code:
\* the backbone is what is registered under `model.`, a block is what is
\* registered under its path.
InBackbone(p) == StartsWith(p, <<"model", ".">>)
InBlock(p, path) == StartsWith(p, path \o <<".">>)
BlockParams(model, path) == { p \in model.params : InBlock(p, path) }
InSomeLayerBlock(model, p) ==
    \/ InBlock(p, EmbeddingsPath)
    \/ \E i \in 0..(model.nLayers - 1) : InBlock(p, EncoderLayerPath(i))

\* a^k
RECURSIVE RPow(_, _)
RPow(a, k) == IF k = 0 THEN Rat(1, 1) ELSE RMul(a, RPow(a, k - 1))

GroupsHolding(groups, p) == { g \in DOMAIN groups : p \in groups[g].params }

\* C1: every parameter of model.named_parameters() is in the params of
\* exactly one returned group (none omitted, none in two groups).
C1_EveryParameterInExactlyOneGroup ==
    GroupingReturned =>
        \A p \in call.model.params :
            Cardinality(GroupsHolding(ret.value, p)) = 1

\* C2: the per-layer groups are emitted top-down, last encoder layer first
\* and the embedding block last; the two groups of the block k steps below
\* the top carry layerwise_lr * layerwise_lr_decay^k (k = L for the
\* embedding block), and the learning rate is non-increasing along the
\* traversal whenever 0 < layerwise_lr_decay <= 1.
C2_LayerwiseLearningRates ==
    GroupingReturned =>
        LET G == ret.value
            L == call.model.nLayers
            d == call.layerwise_lr_decay
            block(k) == IF k < L THEN EncoderLayerPath(L - 1 - k) ELSE EmbeddingsPath
        IN  /\ Len(G) = 3 + 2 * (L + 1)
            /\ \A k \in 0..L :
                   /\ G[4 + 2 * k].lr = RMul(call.layerwise_lr, RPow(d, k))
                   /\ G[5 + 2 * k].lr = RMul(call.layerwise_lr, RPow(d, k))
                   /\ G[4 + 2 * k].params \cup G[5 + 2 * k].params
                          = BlockParams(call.model, block(k))
            /\ (RLt(Zero, d) /\ RLe(d, Rat(1, 1))) =>
                   \A g \in 4..(Len(G) - 1) : RLe(G[g + 1].lr, G[g].lr)

C2_Witness ==
    /\ GroupingReturned
    /\ call.model.nLayers >= 2
    /\ call.layerwise_lr_decay = DefaultLrDecay
    /\ RLt(Zero, call.layerwise_lr)
    /\ RLt(ret.value[Len(ret.value)].lr, ret.value[4].lr)

\* C9: group 0 holds the task-head parameters at decoder_lr with weight
\* decay 0; groups 1 and 2 hold the backbone parameters that are in neither
\* the embedding block nor an encoder layer, at layerwise_lr; every backbone
\* parameter is in a group whose weight decay is 0 if its name contains
\* 'bias' or 'LayerNorm.weight' and layerwise_weight_decay otherwise; there
\* are 3 + 2*(L+1) groups.
C9_GroupLayout ==
    GroupingReturned =>
        LET G == ret.value
            m == call.model
        IN  /\ Len(G) = 3 + 2 * (m.nLayers + 1)
            /\ G[1].params = { p \in m.params : ~InBackbone(p) }
            /\ G[1].lr = call.decoder_lr
            /\ G[1].weight_decay = Zero
            /\ G[2].params \cup G[3].params
                   = { p \in m.params : InBackbone(p) /\ ~InSomeLayerBlock(m, p) }
            /\ G[2].lr = call.layerwise_lr
            /\ G[3].lr = call.layerwise_lr
            /\ \A p \in { q \in m.params : InBackbone(q) } :
                   /\ GroupsHolding(G, p) # {}
                   /\ \A g \in GroupsHolding(G, p) :
                          G[g].weight_decay =
                              IF AnyNoDecay(p) THEN Zero
                              ELSE call.layerwise_weight_decay

\* Sanity: on the backbones without a parameter such as
\* model.embeddings_project.*, C1 and C9 do hold.
GroupingHoldsWithoutElectra ==
    call.fn = "get_optimizer_grouped_parameters" /\ call.model.arch # "electra" =>
        C1_EveryParameterInExactlyOneGroup /\ C9_GroupLayout

-----------------------------------------------------------------------------
(* Claims about optimizer_setup *)

OptimizerSetupReturned == call.fn = "optimizer_setup" /\ ret.kind = "return"

\* C3: the total number of optimizer steps is
\* floor(epochs * train_dataset_size / (train_batch_size * n_accumulate)),
\* the scheduler gets that total and a warmup of 10% of it; dataset_size
\* 1000, epochs 3, batch size 10, n_accumulate 2 give 150 steps and 15
\* warmup steps; the warmup never exceeds the total.
C3_TrainingSteps ==
    OptimizerSetupReturned =>
        LET c == call.config
            n == ret.value.scheduler.num_training_steps
            w == ret.value.scheduler.num_warmup_steps
            per == c.train_batch_size * c.n_accumulate
        IN  /\ n * per <= c.epochs * call.train_dataset_size
            /\ c.epochs * call.train_dataset_size < (n + 1) * per
            /\ w[1] * 10 = n * w[2]
            /\ RLe(w, Rat(n, 1))
            /\ ( /\ call.train_dataset_size = 1000
                 /\ c.epochs = 3
                 /\ c.train_batch_size = 10
                 /\ c.n_accumulate = 2 )
               => (n = 150 /\ w = Rat(15, 1))

C3_Witness ==
    /\ OptimizerSetupReturned
    /\ call.train_dataset_size = 1000
    /\ call.config.epochs = 3
    /\ call.config.train_batch_size = 10
    /\ call.config.n_accumulate = 2
    /\ ret.value.scheduler.num_training_steps = 150

\* C10: without layerwise rates the optimizer gets exactly two groups that
\* partition the model's parameters; the group with weight decay 0 holds
\* precisely the parameters whose name contains 'bias' or
\* 'LayerNorm.weight', the other has config['weight_decay']; neither sets a
\* learning rate, so every parameter uses config['learning_rate'].
C10_PlainGroups ==
    (OptimizerSetupReturned /\ ~call.layerwise) =>
        LET G == ret.value.optimizer.param_groups
            given == OptimizerParameters(call.model, call.config, FALSE)
        IN  /\ Len(G) = 2
            /\ \A p \in call.model.params : Cardinality(GroupsHolding(G, p)) = 1
            /\ \A g \in DOMAIN G : G[g].params \subseteq call.model.params
            /\ G[2].weight_decay = Zero
            /\ G[2].params = { p \in call.model.params : AnyNoDecay(p) }
            /\ G[1].weight_decay = call.config.weight_decay
            /\ \A g \in DOMAIN given : "lr" \notin DOMAIN given[g]
            /\ \A g \in DOMAIN G : G[g].lr = call.config.learning_rate

C10_Witness ==
    /\ OptimizerSetupReturned
    /\ ~call.layerwise
    /\ call.config.weight_decay # Zero
    /\ call.config.learning_rate # call.config.decoder_lr
    /\ ret.value.optimizer.param_groups[1].params # {}
    /\ ret.value.optimizer.param_groups[2].params # {}

-----------------------------------------------------------------------------
(* Claims about FeedBackDataset *)

\* C4: for every index in [0, N), __getitem__ returns a mapping whose keys
\* are exactly {input_ids, attention_mask} for a dataset built with
\* train_mode false and exactly {input_ids, attention_mask, target} for one
\* built with train_mode true, where target holds the row's values for the
\* configured target columns, one per column; __len__ is the number of rows.
C4_GetItemKeys ==
    /\ ( /\ call.fn = "__getitem__"
         /\ ret # Pending
         /\ call.index < Len(dataset.df) )
       => /\ ret.kind = "return"
          /\ IF dataset.train_mode
             THEN /\ DOMAIN ret.value = {"input_ids", "attention_mask", "target"}
                  /\ Len(ret.value.target) = Len(dataset.target_label)
                  /\ \A j \in 1..Len(dataset.target_label) :
                         ret.value.target[j]
                             = dataset.df[call.index + 1][dataset.target_label[j]]
             ELSE DOMAIN ret.value = {"input_ids", "attention_mask"}
    /\ (call.fn = "__len__" /\ ret # Pending)
       => ret = Return(Len(dataset.df))

C4_Witness ==
    /\ call.fn = "__getitem__"
    /\ ret.kind = "return"
    /\ call.index = 1
    /\ dataset.train_mode
    /\ dataset.target_label = TargetColumns
    /\ ret.value.target = <<2, 3, 10, 6, 8, 5>>

-----------------------------------------------------------------------------
(* Claims about the RMSE loss *)

RmseReturned ==
    /\ ret.kind = "return"
    /\ \/ call.fn = "RMSELoss.forward"
       \/ call.fn = "loss_fn" /\ call.loss_type = "rmse"

RmsePredictions ==
    IF call.fn = "loss_fn" THEN call.outputs.data ELSE call.predictions.data
RmseTargets ==
    IF call.fn = "loss_fn" THEN call.labels.data ELSE call.targets.data
RmseReduction ==
    IF call.fn = "loss_fn" THEN "mean" ELSE call.self.reduction

\* sqrt((p_i - t_i)^2 + epsilon)
RmseElement(i) ==
    Sqrt((RmsePredictions[i] - RmseTargets[i]) * (RmsePredictions[i] - RmseTargets[i]) + Eps)

RmseNonNegative ==
    IF ret.value.scalar
    THEN RLe(Zero, ret.value.data)
    ELSE \A i \in DOMAIN ret.value.data : ret.value.data[i] >= 0

\* The elementwise values, reduced by mean ('mean', the default, which
\* loss_fn uses), by sum, or returned elementwise.
RmseReducedBySetting ==
    LET n == Len(RmsePredictions)
        total == SumSeq([i \in 1..n |-> RmseElement(i)])
    IN  CASE RmseReduction = "mean" -> ret.value = Scalar(Rat(total, n))
          [] RmseReduction = "sum" -> ret.value = Scalar(Rat(total, 1))
          [] RmseReduction = "none" ->
                ret.value = Tensor([i \in 1..n |-> RmseElement(i)])
          [] OTHER -> TRUE

\* sqrt(epsilon) on the grid: positive, and the square root of Eps.
SqrtEpsIsRoot ==
    /\ Sqrt(Eps) > 0
    /\ Sqrt(Eps) * Sqrt(Eps) <= Eps
    /\ Eps < (Sqrt(Eps) + 1) * (Sqrt(Eps) + 1)

\* C8 as stated: the RMSE loss is >= 0, RMSE-loss(p, p) equals sqrt(epsilon)
\* (every element of it, when returned elementwise) and is not zero, and
\* the elementwise values are reduced according to the reduction setting.
C8_AsStated ==
    RmseReturned =>
        /\ RmseNonNegative
        /\ RmseReducedBySetting
        /\ SqrtEpsIsRoot
        /\ (RmsePredictions = RmseTargets) =>
               IF ret.value.scalar
               THEN ret.value.data = Rat(Sqrt(Eps), 1)
               ELSE \A i \in DOMAIN ret.value.data : ret.value.data[i] = Sqrt(Eps)

\* C8, amended: as stated, except that RMSE-loss(p, p) is sqrt(epsilon)
\* under the 'mean' reduction and in every element under 'none', and
\* n * sqrt(epsilon) for n elements under 'sum'.
C8_RmseLoss ==
    RmseReturned =>
        /\ RmseNonNegative
        /\ RmseReducedBySetting
        /\ SqrtEpsIsRoot
        /\ (RmsePredictions = RmseTargets) =>
               CASE RmseReduction = "mean" -> ret.value = Scalar(Rat(Sqrt(Eps), 1))
                 [] RmseReduction = "sum" ->
                       ret.value = Scalar(Rat(Len(RmsePredictions) * Sqrt(Eps), 1))
                 [] OTHER ->
                       ret.value = Tensor([i \in 1..Len(RmsePredictions) |-> Sqrt(Eps)])

C8_Witness ==
    /\ RmseReturned
    /\ call.fn = "loss_fn"
    /\ RmsePredictions = RmseTargets
    /\ Len(RmsePredictions) = 2
    /\ ret.value = Scalar(Rat(Sqrt(Eps), 1))

-----------------------------------------------------------------------------
(* Claims about compute_metrics *)

MetricsReturned == call.fn = "compute_metrics" /\ ret.kind = "return"

MetricNames ==
    <<"cohesion_rmse", "syntax_rmse", "vocabulary_rmse",
      "phraseology_rmse", "grammar_rmse", "conventions_rmse">>

\* The six per-target entries, in column order.
PerTarget == [j \in 1..6 |-> ret.value[MetricNames[j]]]

\* The offset of column j in the first row, and whether every row has it.
OffsetOf(j) == call.p.predictions[1][j] - call.p.label_ids[1][j]
ConstantOffsets ==
    \A i \in 1..Len(call.p.label_ids) : \A j \in 1..NumColumns(call.p.label_ids) :
        call.p.predictions[i][j] - call.p.label_ids[i][j] = OffsetOf(j)

\* C5: on predictions and labels of shape (batch, 6): when labels equal
\* predictions all seven values are 0; when predictions are labels plus a
\* per-column constant c_j, the RMSE of column j is |c_j| and mcrmse is the
\* mean of the |c_j|.
C5_ConstantOffsets ==
    (MetricsReturned /\ NumColumns(call.p.label_ids) = 6) =>
        /\ (call.p.label_ids = call.p.predictions) =>
               \A k \in DOMAIN ret.value : ret.value[k] = Zero
        /\ ConstantOffsets =>
               /\ \A j \in 1..6 : PerTarget[j] = Rat(Abs(OffsetOf(j)), 1)
               /\ ret.value.mcrmse = Rat(SumSeq([j \in 1..6 |-> Abs(OffsetOf(j))]), 6)

C5_Witness ==
    /\ MetricsReturned
    /\ NumColumns(call.p.label_ids) = 6
    /\ Len(call.p.label_ids) = 2
    /\ ConstantOffsets
    /\ ret.value.cohesion_rmse = Rat(2, 1)
    /\ ret.value.conventions_rmse = Rat(3, 1)
    /\ ret.value.mcrmse = Rat(9, 6)

\* r, a multiple of 1/Precision, is the square root of the mean squared
\* error of column j, rounded down to the grid.
IsColumnRmse(r, j) ==
    LET v == (r[1] * Precision) \div r[2]
        n == Len(call.p.label_ids)
        sq == SquaredErrorSum(call.p.label_ids, call.p.predictions, j)
    IN  /\ Rat(v, Precision) = r
        /\ v >= 0
        /\ v * v * n <= sq * Precision * Precision
        /\ sq * Precision * Precision < (v + 1) * (v + 1) * n

MetricsShape ==
    /\ DOMAIN ret.value = {"mcrmse"} \cup { MetricNames[j] : j \in 1..6 }
    /\ \A k \in DOMAIN ret.value : RLe(Zero, ret.value[k])
    /\ \A j \in 1..6 : IsColumnRmse(PerTarget[j], j)

\* C6 as stated: every returned mapping has exactly the seven entries, each
\* non-negative, the six per-target entries are the RMSEs of columns 0..5
\* in that order, and mcrmse is the unweighted mean of those six entries.
C6_AsStated ==
    MetricsReturned =>
        /\ MetricsShape
        /\ ret.value.mcrmse = RMul(SumRat(PerTarget), Rat(1, 6))

\* C6, amended: as stated for arrays of exactly six columns; in general
\* mcrmse is the unweighted mean of the RMSEs of all the input's columns.
C6_MetricsMapping ==
    MetricsReturned =>
        /\ MetricsShape
        /\ (NumColumns(call.p.label_ids) = 6) =>
               ret.value.mcrmse = RMul(SumRat(PerTarget), Rat(1, 6))
        /\ LET nc == NumColumns(call.p.label_ids)
               all == ColwiseRmse(call.p.label_ids, call.p.predictions)
           IN  /\ \A j \in 1..6 : all[j] = PerTarget[j]
               /\ ret.value.mcrmse = RMul(SumRat(all), Rat(1, nc))

C6_Witness ==
    /\ MetricsReturned
    /\ NumColumns(call.p.label_ids) = 6
    /\ Len(call.p.label_ids) = 2
    /\ ~ConstantOffsets
    /\ ret.value.syntax_rmse # ret.value.vocabulary_rmse
    /\ RLt(Zero, ret.value.mcrmse)

-----------------------------------------------------------------------------
(* Claims about misconfiguration *)

\* The error of a misconfiguration is raised by a check of this code that
\* names the problem, not by the library or the interpreter further down.
Descriptive(r) == r.kind = "raise" /\ r.raisedBy = "repo"

\* C7: each of the three misconfigurations fails fast with a descriptive
\* error instead of producing a result or propagating a framework-level
\* exception: (1) FeedBackDataset with train_mode true and no target-column
\* list, at construction; (2) loss_fn with a loss_type other than 'mse',
\* 'rmse', 'smooth_l1'; (3) compute_metrics on fewer than 6 columns.
C7_DescriptiveErrors ==
    /\ ( /\ call.fn = "__init__"
         /\ ret # Pending
         /\ call.train_mode
         /\ call.target_label = NoTargetLabel )
       => (Descriptive(ret) /\ dataset = NoDataset)
    /\ ( /\ call.fn = "loss_fn"
         /\ ret # Pending
         /\ call.loss_type \notin {"mse", "rmse", "smooth_l1"} )
       => Descriptive(ret)
    /\ ( /\ call.fn = "compute_metrics"
         /\ ret # Pending
         /\ NumColumns(call.p.label_ids) < 6 )
       => Descriptive(ret)

\* What the code does in the three cases: the call raises, from below this
\* code, and leaves no result.
MisconfigurationRaises ==
    /\ ( /\ call.fn = "__init__"
         /\ ret # Pending
         /\ call.train_mode
         /\ call.target_label = NoTargetLabel )
       => (ret = Raise("KeyError", "pandas") /\ dataset = NoDataset)
    /\ ( /\ call.fn = "loss_fn"
         /\ ret # Pending
         /\ call.loss_type \notin {"mse", "rmse", "smooth_l1"} )
       => ret = Raise("UnboundLocalError", "python")
    /\ ( /\ call.fn = "compute_metrics"
         /\ ret # Pending
         /\ NumColumns(call.p.label_ids) < 6 )
       => ret = Raise("IndexError", "numpy")

\* Every call of the three units, for the claims that span them.
Next ==
    \/ NextDataset
    \/ NextLoss
    \/ NextMetrics

Spec == Init /\ [][Next]_vars

====
